---- MODULE Spec2Model ----
\* Model of the auth-token commands of the Red Letters desktop backend
\* (gui/src-tauri/src/commands/auth.rs): validate_token, try_keychain,
\* try_fallback_file, get_auth_token, set_auth_token, delete_auth_token.
\*
\* A Rust String is modelled as the sequence of its Unicode scalar values;
\* Utf8Bytes gives the bytes the String holds, which is what str::len and
\* str::starts_with work on.
EXTENDS Integers, Sequences, FiniteSets, TLC

VARIABLES
    kcEntry,    \* the secure-store entry for (KEYCHAIN_SERVICE, KEYCHAIN_ACCOUNT)
    kcFault,    \* condition of the secure store: "none", "new", "locked", "platform"
    home,       \* TRUE iff dirs::home_dir() is Some
    cfg_unix,   \* TRUE iff the build has cfg(unix)
    file,       \* the object at ~/.greek2english/.auth_token
    last,       \* the command that made the last step, its argument, result and calls
    lastSet,    \* token of the latest successful set_auth_token still in the store
    deleted,    \* TRUE from a successful delete_auth_token to the next write of the store
    run         \* the get_auth_token invocations in progress, one per caller

vars == <<kcEntry, kcFault, home, cfg_unix, file, last, lastSet, deleted, run>>

----------------------------------------------------------------------------
\* Bounds of the model

\* longest run of filler characters after a prefix in the validator's inputs
MaxBody == 22
\* longest run of whitespace on each side of a fallback file's token
MaxPad == 1

----------------------------------------------------------------------------
\* Strings

Rep(c, n) == [i \in 1..n |-> c]

\* UTF-8 encoding of one Unicode scalar value
Utf8Char(c) ==
    IF c < 128 THEN <<c>>
    ELSE IF c < 2048 THEN <<192 + (c \div 64), 128 + (c % 64)>>
    ELSE IF c < 65536 THEN <<224 + (c \div 4096), 128 + ((c \div 64) % 64), 128 + (c % 64)>>
    ELSE <<240 + (c \div 262144), 128 + ((c \div 4096) % 64),
           128 + ((c \div 64) % 64), 128 + (c % 64)>>

RECURSIVE Utf8Bytes(_)
Utf8Bytes(s) == IF s = <<>> THEN <<>> ELSE Utf8Char(Head(s)) \o Utf8Bytes(Tail(s))

\* str::len: the length in bytes
str_len(s) == Len(Utf8Bytes(s))

\* str::starts_with(&str): byte-wise prefix test
starts_with(s, p) ==
    LET b == Utf8Bytes(s)
        q == Utf8Bytes(p)
    IN  Len(q) <= Len(b) /\ SubSeq(b, 1, Len(q)) = q

\* char::is_whitespace: the Unicode White_Space property
is_whitespace(c) ==
    \/ c \in 9..13
    \/ c = 32
    \/ c = 133
    \/ c = 160
    \/ c = 5760
    \/ c \in 8192..8202
    \/ c = 8232
    \/ c = 8233
    \/ c = 8239
    \/ c = 8287
    \/ c = 12288

RECURSIVE trim_start(_)
trim_start(s) ==
    IF s # <<>> /\ is_whitespace(Head(s)) THEN trim_start(Tail(s)) ELSE s

RECURSIVE trim_end(_)
trim_end(s) ==
    IF s # <<>> /\ is_whitespace(s[Len(s)])
    THEN trim_end(SubSeq(s, 1, Len(s) - 1))
    ELSE s

\* trim that leaves trailing whitespace in place
trim_leading_only(s) == trim_start(s)

\* str::trim
trim(s) == trim_end(trim_start(s))

----------------------------------------------------------------------------
\* Program constants

\* "rl_"
TOKEN_PREFIX == <<114, 108, 95>>
\* the length bound of validate_token
MinTokenLen == 24
\* 0o077, the group/other permission bits
GroupOtherMask == 63

----------------------------------------------------------------------------
\* Results.  Result<_, AuthError> as a record: tag is "Ok" or the AuthError
\* variant, token/source carry the payload of Ok, msg the String of
\* KeychainError and FileError.

R(tag, token, source, msg) ==
    [tag |-> tag, token |-> token, source |-> source, msg |-> msg]

OkUnit == R("Ok", <<>>, "", "")
OkStr(s) == R("Ok", s, "", "")
Err(e) == R(e, <<>>, "", "")
ErrMsg(e, m) == R(e, <<>>, "", m)

Call(c, a) == [call |-> c, arg |-> a]

----------------------------------------------------------------------------
\* validate_token

\* validate_token with the bound taken as exclusive
validate_token_exclusive(token) ==
    IF starts_with(token, TOKEN_PREFIX) /\ str_len(token) > MinTokenLen
    THEN OkUnit
    ELSE Err("InvalidFormat")

validate_token(token) ==
    IF starts_with(token, TOKEN_PREFIX) /\ str_len(token) >= MinTokenLen
    THEN OkUnit
    ELSE Err("InvalidFormat")

----------------------------------------------------------------------------
\* The secure store (keyring::Entry for KEYCHAIN_SERVICE / KEYCHAIN_ACCOUNT)

Present(v) == [present |-> TRUE, value |-> v]
Absent == [present |-> FALSE, value |-> <<>>]

\* Entry::new(KEYCHAIN_SERVICE, KEYCHAIN_ACCOUNT)
EntryNew == IF kcFault = "new" THEN ErrMsg("Err", "Invalid") ELSE OkUnit

\* Entry::get_password
get_password ==
    IF kcFault = "locked" THEN ErrMsg("Err", "NoStorageAccess")
    ELSE IF kcFault = "platform" THEN ErrMsg("Err", "PlatformFailure")
    ELSE IF ~kcEntry.present THEN ErrMsg("Err", "NoEntry")
    ELSE OkStr(kcEntry.value)

\* Entry::set_password(&token): the outcome and the entry it leaves
set_password(token) ==
    IF kcFault = "locked" THEN [res |-> ErrMsg("Err", "NoStorageAccess"), entry |-> kcEntry]
    ELSE IF kcFault = "platform" THEN [res |-> ErrMsg("Err", "PlatformFailure"), entry |-> kcEntry]
    ELSE [res |-> OkUnit, entry |-> Present(token)]

\* Entry::delete_password: the outcome and the entry it leaves
delete_password ==
    IF kcFault = "locked" THEN [res |-> ErrMsg("Err", "NoStorageAccess"), entry |-> kcEntry]
    ELSE IF kcFault = "platform" THEN [res |-> ErrMsg("Err", "PlatformFailure"), entry |-> kcEntry]
    ELSE IF ~kcEntry.present THEN [res |-> ErrMsg("Err", "NoEntry"), entry |-> kcEntry]
    ELSE [res |-> OkUnit, entry |-> Absent]

try_keychain ==
    IF EntryNew.tag # "Ok"
    THEN [res |-> ErrMsg("KeychainError", EntryNew.msg),
          log |-> <<Call("Entry::new", <<>>)>>]
    ELSE IF get_password.tag # "Ok"
    THEN [res |-> Err("NotFound"),
          log |-> <<Call("Entry::new", <<>>), Call("get_password", <<>>)>>]
    ELSE [res |-> OkStr(get_password.token),
          log |-> <<Call("Entry::new", <<>>), Call("get_password", <<>>)>>]

----------------------------------------------------------------------------
\* The fallback file ~/.greek2english/.auth_token

NoFile == [kind |-> "absent", mode |-> 0, text |-> <<>>]

\* get_fallback_path().is_some()
get_fallback_path == home

\* Path::exists
path_exists == file.kind # "absent"

\* fs::metadata(&path)
fs_metadata ==
    IF file.kind = "absent" THEN ErrMsg("Err", "NotFound") ELSE OkUnit

\* fs::read_to_string(&path)
read_to_string ==
    IF file.kind = "absent" THEN ErrMsg("Err", "NotFound")
    ELSE IF file.kind = "dir" THEN ErrMsg("Err", "IsADirectory")
    ELSE IF file.kind = "binary" THEN ErrMsg("Err", "InvalidData")
    ELSE OkStr(file.text)

\* the cfg(unix) block of try_fallback_file: the calls it makes
unix_block_log ==
    IF ~cfg_unix THEN <<>>
    ELSE IF fs_metadata.tag # "Ok" THEN <<Call("fs::metadata", <<>>)>>
    ELSE IF file.mode % (GroupOtherMask + 1) # 0
    THEN <<Call("fs::metadata", <<>>), Call("eprintln", <<file.mode % 512>>)>>
    ELSE <<Call("fs::metadata", <<>>)>>

\* try_fallback_file refusing a file whose group/other permission bits are set
try_fallback_file_enforces_mode ==
    IF ~get_fallback_path
    THEN [res |-> Err("NotFound"), log |-> <<Call("home_dir", <<>>)>>]
    ELSE IF ~path_exists
    THEN [res |-> Err("NotFound"),
          log |-> <<Call("home_dir", <<>>), Call("path.exists", <<>>)>>]
    ELSE IF cfg_unix /\ fs_metadata.tag # "Ok"
    THEN [res |-> ErrMsg("FileError", fs_metadata.msg),
          log |-> <<Call("home_dir", <<>>), Call("path.exists", <<>>)>> \o unix_block_log]
    ELSE IF cfg_unix /\ file.mode % (GroupOtherMask + 1) # 0
    THEN [res |-> ErrMsg("FileError", "PermissionsTooOpen"),
          log |-> <<Call("home_dir", <<>>), Call("path.exists", <<>>)>> \o unix_block_log]
    ELSE IF read_to_string.tag # "Ok"
    THEN [res |-> ErrMsg("FileError", read_to_string.msg),
          log |-> <<Call("home_dir", <<>>), Call("path.exists", <<>>)>> \o unix_block_log
                  \o <<Call("fs::read_to_string", <<>>)>>]
    ELSE [res |-> OkStr(trim(read_to_string.token)),
          log |-> <<Call("home_dir", <<>>), Call("path.exists", <<>>)>> \o unix_block_log
                  \o <<Call("fs::read_to_string", <<>>)>>]

try_fallback_file ==
    IF ~get_fallback_path
    THEN [res |-> Err("NotFound"), log |-> <<Call("home_dir", <<>>)>>]
    ELSE IF ~path_exists
    THEN [res |-> Err("NotFound"),
          log |-> <<Call("home_dir", <<>>), Call("path.exists", <<>>)>>]
    ELSE IF cfg_unix /\ fs_metadata.tag # "Ok"
    THEN [res |-> ErrMsg("FileError", fs_metadata.msg),
          log |-> <<Call("home_dir", <<>>), Call("path.exists", <<>>)>> \o unix_block_log]
    ELSE IF read_to_string.tag # "Ok"
    THEN [res |-> ErrMsg("FileError", read_to_string.msg),
          log |-> <<Call("home_dir", <<>>), Call("path.exists", <<>>)>> \o unix_block_log
                  \o <<Call("fs::read_to_string", <<>>)>>]
    ELSE [res |-> OkStr(trim(read_to_string.token)),
          log |-> <<Call("home_dir", <<>>), Call("path.exists", <<>>)>> \o unix_block_log
                  \o <<Call("fs::read_to_string", <<>>)>>]

----------------------------------------------------------------------------
\* The commands

\* get_auth_token going on to the fallback file when the token of the secure
\* store fails validation
get_auth_token_falls_through ==
    IF try_keychain.res.tag = "Ok" /\ validate_token(try_keychain.res.token).tag = "Ok"
    THEN [res |-> R("Ok", try_keychain.res.token, "keychain", ""),
          log |-> try_keychain.log]
    ELSE IF try_fallback_file.res.tag = "Ok"
    THEN IF validate_token(try_fallback_file.res.token).tag # "Ok"
         THEN [res |-> validate_token(try_fallback_file.res.token),
               log |-> try_keychain.log \o try_fallback_file.log]
         ELSE [res |-> R("Ok", try_fallback_file.res.token, "file", ""),
               log |-> try_keychain.log \o try_fallback_file.log]
    ELSE [res |-> Err("NotFound"), log |-> try_keychain.log \o try_fallback_file.log]

\* get_auth_token trying the fallback file before the secure store
get_auth_token_file_first ==
    IF try_fallback_file.res.tag = "Ok"
    THEN IF validate_token(try_fallback_file.res.token).tag # "Ok"
         THEN [res |-> validate_token(try_fallback_file.res.token),
               log |-> try_fallback_file.log]
         ELSE [res |-> R("Ok", try_fallback_file.res.token, "file", ""),
               log |-> try_fallback_file.log]
    ELSE IF try_keychain.res.tag = "Ok"
    THEN IF validate_token(try_keychain.res.token).tag # "Ok"
         THEN [res |-> validate_token(try_keychain.res.token),
               log |-> try_fallback_file.log \o try_keychain.log]
         ELSE [res |-> R("Ok", try_keychain.res.token, "keychain", ""),
               log |-> try_fallback_file.log \o try_keychain.log]
    ELSE [res |-> Err("NotFound"), log |-> try_fallback_file.log \o try_keychain.log]

\* get_auth_token propagating the error of try_fallback_file
get_auth_token_propagates_file_error ==
    IF try_keychain.res.tag = "Ok"
    THEN IF validate_token(try_keychain.res.token).tag # "Ok"
         THEN [res |-> validate_token(try_keychain.res.token), log |-> try_keychain.log]
         ELSE [res |-> R("Ok", try_keychain.res.token, "keychain", ""),
               log |-> try_keychain.log]
    ELSE IF try_fallback_file.res.tag = "Ok"
    THEN IF validate_token(try_fallback_file.res.token).tag # "Ok"
         THEN [res |-> validate_token(try_fallback_file.res.token),
               log |-> try_keychain.log \o try_fallback_file.log]
         ELSE [res |-> R("Ok", try_fallback_file.res.token, "file", ""),
               log |-> try_keychain.log \o try_fallback_file.log]
    ELSE [res |-> try_fallback_file.res, log |-> try_keychain.log \o try_fallback_file.log]

\* get_auth_token returning the token of the fallback file without validating it
get_auth_token_unvalidated_file ==
    IF try_keychain.res.tag = "Ok"
    THEN IF validate_token(try_keychain.res.token).tag # "Ok"
         THEN [res |-> validate_token(try_keychain.res.token), log |-> try_keychain.log]
         ELSE [res |-> R("Ok", try_keychain.res.token, "keychain", ""),
               log |-> try_keychain.log]
    ELSE IF try_fallback_file.res.tag = "Ok"
    THEN [res |-> R("Ok", try_fallback_file.res.token, "file", ""),
          log |-> try_keychain.log \o try_fallback_file.log]
    ELSE [res |-> Err("NotFound"), log |-> try_keychain.log \o try_fallback_file.log]

\* get_auth_token reporting a malformed token of the fallback file as NotFound
get_auth_token_invalid_file_not_found ==
    IF try_keychain.res.tag = "Ok"
    THEN IF validate_token(try_keychain.res.token).tag # "Ok"
         THEN [res |-> validate_token(try_keychain.res.token), log |-> try_keychain.log]
         ELSE [res |-> R("Ok", try_keychain.res.token, "keychain", ""),
               log |-> try_keychain.log]
    ELSE IF try_fallback_file.res.tag = "Ok"
            /\ validate_token(try_fallback_file.res.token).tag = "Ok"
    THEN [res |-> R("Ok", try_fallback_file.res.token, "file", ""),
          log |-> try_keychain.log \o try_fallback_file.log]
    ELSE [res |-> Err("NotFound"), log |-> try_keychain.log \o try_fallback_file.log]

\* get_auth_token propagating a KeychainError of try_keychain
get_auth_token_propagates_keychain_error ==
    IF try_keychain.res.tag = "Ok"
    THEN IF validate_token(try_keychain.res.token).tag # "Ok"
         THEN [res |-> validate_token(try_keychain.res.token), log |-> try_keychain.log]
         ELSE [res |-> R("Ok", try_keychain.res.token, "keychain", ""),
               log |-> try_keychain.log]
    ELSE IF try_keychain.res.tag = "KeychainError"
    THEN [res |-> try_keychain.res, log |-> try_keychain.log]
    ELSE IF try_fallback_file.res.tag = "Ok"
    THEN IF validate_token(try_fallback_file.res.token).tag # "Ok"
         THEN [res |-> validate_token(try_fallback_file.res.token),
               log |-> try_keychain.log \o try_fallback_file.log]
         ELSE [res |-> R("Ok", try_fallback_file.res.token, "file", ""),
               log |-> try_keychain.log \o try_fallback_file.log]
    ELSE [res |-> Err("NotFound"), log |-> try_keychain.log \o try_fallback_file.log]

get_auth_token ==
    IF try_keychain.res.tag = "Ok"
    THEN IF validate_token(try_keychain.res.token).tag # "Ok"
         THEN [res |-> validate_token(try_keychain.res.token), log |-> try_keychain.log]
         ELSE [res |-> R("Ok", try_keychain.res.token, "keychain", ""),
               log |-> try_keychain.log]
    ELSE IF try_fallback_file.res.tag = "Ok"
    THEN IF validate_token(try_fallback_file.res.token).tag # "Ok"
         THEN [res |-> validate_token(try_fallback_file.res.token),
               log |-> try_keychain.log \o try_fallback_file.log]
         ELSE [res |-> R("Ok", try_fallback_file.res.token, "file", ""),
               log |-> try_keychain.log \o try_fallback_file.log]
    ELSE [res |-> Err("NotFound"), log |-> try_keychain.log \o try_fallback_file.log]

\* set_auth_token validating after the write
set_auth_token_write_first(token) ==
    IF EntryNew.tag # "Ok"
    THEN [res |-> ErrMsg("KeychainError", EntryNew.msg),
          log |-> <<Call("Entry::new", <<>>)>>, entry |-> kcEntry]
    ELSE IF set_password(token).res.tag # "Ok"
    THEN [res |-> ErrMsg("KeychainError", set_password(token).res.msg),
          log |-> <<Call("Entry::new", <<>>), Call("set_password", token)>>,
          entry |-> set_password(token).entry]
    ELSE [res |-> validate_token(token),
          log |-> <<Call("Entry::new", <<>>), Call("set_password", token)>>,
          entry |-> set_password(token).entry]

\* set_auth_token storing the candidate trimmed
set_auth_token_trimmed(token) ==
    IF validate_token(token).tag # "Ok"
    THEN [res |-> validate_token(token), log |-> <<>>, entry |-> kcEntry]
    ELSE IF EntryNew.tag # "Ok"
    THEN [res |-> ErrMsg("KeychainError", EntryNew.msg),
          log |-> <<Call("Entry::new", <<>>)>>, entry |-> kcEntry]
    ELSE IF set_password(trim(token)).res.tag # "Ok"
    THEN [res |-> ErrMsg("KeychainError", set_password(trim(token)).res.msg),
          log |-> <<Call("Entry::new", <<>>), Call("set_password", trim(token))>>,
          entry |-> set_password(trim(token)).entry]
    ELSE [res |-> OkUnit,
          log |-> <<Call("Entry::new", <<>>), Call("set_password", trim(token))>>,
          entry |-> set_password(trim(token)).entry]

\* the result, the calls made and the entry left in the secure store
set_auth_token(token) ==
    IF validate_token(token).tag # "Ok"
    THEN [res |-> validate_token(token), log |-> <<>>, entry |-> kcEntry]
    ELSE IF EntryNew.tag # "Ok"
    THEN [res |-> ErrMsg("KeychainError", EntryNew.msg),
          log |-> <<Call("Entry::new", <<>>)>>, entry |-> kcEntry]
    ELSE IF set_password(token).res.tag # "Ok"
    THEN [res |-> ErrMsg("KeychainError", set_password(token).res.msg),
          log |-> <<Call("Entry::new", <<>>), Call("set_password", token)>>,
          entry |-> set_password(token).entry]
    ELSE [res |-> OkUnit,
          log |-> <<Call("Entry::new", <<>>), Call("set_password", token)>>,
          entry |-> set_password(token).entry]

\* delete_auth_token treating a missing entry as success
delete_auth_token_ignores_missing ==
    IF EntryNew.tag # "Ok"
    THEN [res |-> ErrMsg("KeychainError", EntryNew.msg),
          log |-> <<Call("Entry::new", <<>>)>>, entry |-> kcEntry]
    ELSE IF delete_password.res.tag # "Ok" /\ delete_password.res.msg # "NoEntry"
    THEN [res |-> ErrMsg("KeychainError", delete_password.res.msg),
          log |-> <<Call("Entry::new", <<>>), Call("delete_password", <<>>)>>,
          entry |-> delete_password.entry]
    ELSE [res |-> OkUnit,
          log |-> <<Call("Entry::new", <<>>), Call("delete_password", <<>>)>>,
          entry |-> delete_password.entry]

\* delete_auth_token reporting success while the entry stays in the store
delete_auth_token_keeps_entry ==
    IF EntryNew.tag # "Ok"
    THEN [res |-> ErrMsg("KeychainError", EntryNew.msg),
          log |-> <<Call("Entry::new", <<>>)>>, entry |-> kcEntry]
    ELSE IF delete_password.res.tag # "Ok"
    THEN [res |-> ErrMsg("KeychainError", delete_password.res.msg),
          log |-> <<Call("Entry::new", <<>>), Call("delete_password", <<>>)>>,
          entry |-> kcEntry]
    ELSE [res |-> OkUnit,
          log |-> <<Call("Entry::new", <<>>), Call("delete_password", <<>>)>>,
          entry |-> kcEntry]

delete_auth_token ==
    IF EntryNew.tag # "Ok"
    THEN [res |-> ErrMsg("KeychainError", EntryNew.msg),
          log |-> <<Call("Entry::new", <<>>)>>, entry |-> kcEntry]
    ELSE IF delete_password.res.tag # "Ok"
    THEN [res |-> ErrMsg("KeychainError", delete_password.res.msg),
          log |-> <<Call("Entry::new", <<>>), Call("delete_password", <<>>)>>,
          entry |-> delete_password.entry]
    ELSE [res |-> OkUnit,
          log |-> <<Call("Entry::new", <<>>), Call("delete_password", <<>>)>>,
          entry |-> delete_password.entry]

----------------------------------------------------------------------------
\* The values the model draws from

\* "rl_" followed by 21 times "a": 24 bytes
TokA == TOKEN_PREFIX \o Rep(97, 21)
\* "rl_" followed by 22 times "b": 25 bytes
TokB == TOKEN_PREFIX \o Rep(98, 22)
\* "rl_abcdefghij1234567890", the token of test_validate_token
TestToken == <<114, 108, 95, 97, 98, 99, 100, 101, 102, 103, 104, 105, 106,
               49, 50, 51, 52, 53, 54, 55, 56, 57, 48>>
\* "invalid_token"
TestInvalid == <<105, 110, 118, 97, 108, 105, 100, 95, 116, 111, 107, 101, 110>>
\* "rl_short"
TestShort == <<114, 108, 95, 115, 104, 111, 114, 116>>
\* "xl_" followed by 21 times "a"
NoPrefixTok == <<120, 108, 95>> \o Rep(97, 21)
\* TokA followed by a line feed
TokNL == TokA \o <<10>>
\* "rl_", 10 times "a", a space, 10 times "a": 24 bytes
TokInner == TOKEN_PREFIX \o Rep(97, 10) \o <<32>> \o Rep(97, 10)

KcTokens == {TokA, TokB, TestToken, NoPrefixTok, <<>>, TokNL}
KcEntries == {Absent} \cup {Present(t) : t \in KcTokens}
Faults == {"none", "new", "locked", "platform"}

FileTokens == {TokA, TestToken, <<>>, TokInner}
\* line feed and U+3000 (ideographic space)
PadChars == {10, 12288}
FileTexts ==
    {Rep(w, l) \o t \o Rep(w, r) : t \in FileTokens, w \in PadChars,
                                   l \in 0..MaxPad, r \in 0..MaxPad}
\* 0o600 and 0o644
Modes == {384, 420}
Files ==
    {NoFile}
    \cup {[kind |-> k, mode |-> m, text |-> <<>>] : k \in {"dir", "binary"}, m \in Modes}
    \cup {[kind |-> "text", mode |-> m, text |-> x] : m \in Modes, x \in FileTexts}

\* inputs of validate_token: a prefix followed by a run of one character
Prefixes == {TOKEN_PREFIX, <<114, 108>>, <<120, 108, 95>>, <<82, 76, 95>>, <<>>,
             <<32, 114, 108, 95>>}
\* "a", U+00E9 (2 bytes), U+20AC (3 bytes), U+1F511 (4 bytes)
Fillers == {97, 233, 8364, 128273}
ValidateInputs ==
    {p \o Rep(c, n) : p \in Prefixes, c \in Fillers, n \in 0..MaxBody}
    \cup {TestToken, TestInvalid, TestShort}

----------------------------------------------------------------------------
\* State machine

NoToken == Absent

\* the callers that may have a get_auth_token invocation in progress
Callers == {1, 2}
NotRun == R("None", <<>>, "", "")
\* no invocation in progress
IdleRun == [pc |-> "idle", clean |-> TRUE, log |-> <<>>, fb |-> NotRun, res |-> NotRun]
NoRuns == [c \in Callers |-> IdleRun]
NoCall == [op |-> "none", arg |-> <<>>, res |-> OkUnit, log |-> <<>>]
External == [op |-> "external", arg |-> <<>>, res |-> OkUnit, log |-> <<>>]

Init ==
    /\ kcEntry \in KcEntries
    /\ kcFault \in Faults
    /\ home \in BOOLEAN
    /\ cfg_unix \in BOOLEAN
    /\ file \in Files
    /\ last = NoCall
    /\ lastSet = NoToken
    /\ deleted = FALSE
    /\ run = NoRuns

GetAuthToken ==
    /\ last' = [op |-> "get_auth_token", arg |-> <<>>,
                res |-> get_auth_token.res, log |-> get_auth_token.log]
    /\ UNCHANGED <<kcEntry, kcFault, home, cfg_unix, file, lastSet, deleted, run>>

SetAuthToken(token) ==
    /\ last' = [op |-> "set_auth_token", arg |-> token,
                res |-> set_auth_token(token).res, log |-> set_auth_token(token).log]
    /\ kcEntry' = set_auth_token(token).entry
    /\ lastSet' = IF set_auth_token(token).res.tag = "Ok" THEN Present(token) ELSE lastSet
    /\ deleted' = IF set_auth_token(token).res.tag = "Ok" THEN FALSE ELSE deleted
    /\ UNCHANGED <<kcFault, home, cfg_unix, file, run>>

\* delete_auth_token that also removes the fallback file
DeleteAuthToken_removes_file ==
    /\ last' = [op |-> "delete_auth_token", arg |-> <<>>,
                res |-> delete_auth_token.res, log |-> delete_auth_token.log]
    /\ kcEntry' = delete_auth_token.entry
    /\ lastSet' = IF delete_auth_token.res.tag = "Ok" THEN NoToken ELSE lastSet
    /\ deleted' = IF delete_auth_token.res.tag = "Ok" THEN TRUE ELSE deleted
    /\ file' = IF delete_auth_token.res.tag = "Ok" THEN NoFile ELSE file
    /\ UNCHANGED <<kcFault, home, cfg_unix, run>>

DeleteAuthToken ==
    /\ last' = [op |-> "delete_auth_token", arg |-> <<>>,
                res |-> delete_auth_token.res, log |-> delete_auth_token.log]
    /\ kcEntry' = delete_auth_token.entry
    /\ lastSet' = IF delete_auth_token.res.tag = "Ok" THEN NoToken ELSE lastSet
    /\ deleted' = IF delete_auth_token.res.tag = "Ok" THEN TRUE ELSE deleted
    /\ UNCHANGED <<kcFault, home, cfg_unix, file, run>>

\* another program (the engine's CLI, the user) changes the secure store
ExternalKeychainWrite(e) ==
    /\ e # kcEntry
    /\ kcEntry' = e
    /\ last' = External
    /\ lastSet' = NoToken
    /\ deleted' = FALSE
    /\ UNCHANGED <<kcFault, home, cfg_unix, file, run>>

\* the secure store becomes locked, fails, or recovers
ExternalKeychainFault(f) ==
    /\ f # kcFault
    /\ kcFault' = f
    /\ last' = External
    /\ lastSet' = NoToken
    /\ UNCHANGED <<kcEntry, home, cfg_unix, file, deleted, run>>

\* the setup step outside the core creates, rewrites, chmods or removes the file
ExternalFileChange(f) ==
    /\ f # file
    /\ file' = f
    /\ last' = External
    /\ UNCHANGED <<kcEntry, kcFault, home, cfg_unix, lastSet, deleted, run>>

Next ==
    \/ GetAuthToken
    \/ \E t \in KcTokens : SetAuthToken(t)
    \/ DeleteAuthToken
    \/ \E e \in KcEntries : ExternalKeychainWrite(e)
    \/ \E f \in Faults : ExternalKeychainFault(f)
    \/ \E f \in Files : ExternalFileChange(f)

Spec == Init /\ [][Next]_vars

\* validate_token applied to drawn inputs
InitV ==
    /\ kcEntry = Absent
    /\ kcFault = "none"
    /\ home = TRUE
    /\ cfg_unix = TRUE
    /\ file = NoFile
    /\ last = NoCall
    /\ lastSet = NoToken
    /\ deleted = FALSE
    /\ run = NoRuns

CallValidateToken(s) ==
    /\ last' = [op |-> "validate_token", arg |-> s, res |-> validate_token(s), log |-> <<>>]
    /\ UNCHANGED <<kcEntry, kcFault, home, cfg_unix, file, lastSet, deleted, run>>

NextV == \E s \in ValidateInputs : CallValidateToken(s)

SpecV == InitV /\ [][NextV]_vars

\* set_auth_token and delete_auth_token alone on a store that starts absent or
\* valid; the store may lock, fail and recover in between
Init16 ==
    /\ kcEntry \in {e \in KcEntries : e.present => validate_token(e.value).tag = "Ok"}
    /\ kcFault \in Faults
    /\ home = TRUE
    /\ cfg_unix = TRUE
    /\ file = NoFile
    /\ last = NoCall
    /\ lastSet = NoToken
    /\ deleted = FALSE
    /\ run = NoRuns

KeychainFaultChange(f) ==
    /\ f # kcFault
    /\ kcFault' = f
    /\ last' = External
    /\ UNCHANGED <<kcEntry, home, cfg_unix, file, lastSet, deleted, run>>

Next16 ==
    \/ \E t \in KcTokens : SetAuthToken(t)
    \/ DeleteAuthToken
    \/ \E f \in Faults : KeychainFaultChange(f)

Spec16 == Init16 /\ [][Next16]_vars

\* try_fallback_file applied to drawn states of the fallback file
InitF ==
    /\ kcEntry = Absent
    /\ kcFault = "none"
    /\ home \in BOOLEAN
    /\ cfg_unix \in BOOLEAN
    /\ file \in Files
    /\ last = NoCall
    /\ lastSet = NoToken
    /\ deleted = FALSE
    /\ run = NoRuns

CallTryFallbackFile ==
    /\ last' = [op |-> "try_fallback_file", arg |-> <<>>,
                res |-> try_fallback_file.res, log |-> try_fallback_file.log]
    /\ UNCHANGED <<kcEntry, kcFault, home, cfg_unix, file, lastSet, deleted, run>>

NextF ==
    \/ CallTryFallbackFile
    \/ \E f \in Files : ExternalFileChange(f)

SpecF == InitF /\ [][NextF]_vars

----------------------------------------------------------------------------
\* get_auth_token call by call: invocations of several callers interleave with
\* each other, with set_auth_token and delete_auth_token, and with changes of
\* the fallback file between the calls of try_fallback_file

KcEntriesC == {Absent, Present(TokB), Present(TestToken)}
FilesC ==
    {NoFile,
     [kind |-> "text", mode |-> 420, text |-> TokA \o <<10>>],
     [kind |-> "text", mode |-> 384, text |-> TestToken],
     [kind |-> "dir", mode |-> 384, text |-> <<>>]}

\* a change of either store makes the invocations in progress unclean
Dirty ==
    [c \in Callers |->
        IF run[c].pc = "idle" THEN run[c] ELSE [run[c] EXCEPT !.clean = FALSE]]

\* the branch of get_auth_token on the token of the secure store
after_keychain(token) ==
    IF validate_token(token).tag # "Ok"
    THEN validate_token(token)
    ELSE R("Ok", token, "keychain", "")

\* the branch of get_auth_token on the result of try_fallback_file
after_fallback(fb) ==
    IF fb.tag = "Ok"
    THEN IF validate_token(fb.token).tag # "Ok"
         THEN validate_token(fb.token)
         ELSE R("Ok", fb.token, "file", "")
    ELSE Err("NotFound")

\* the invocation ends inside try_fallback_file with the result fb; the
\* singleton sets bind fb and the command's result as values computed once
Finish(c, fb, calls) ==
    \E v \in {fb} : \E r \in {after_fallback(v)} :
        run' = [run EXCEPT ![c] = [@ EXCEPT !.pc = "done", !.log = @ \o calls,
                                             !.fb = v, !.res = r]]

Goto(c, pc, calls) ==
    run' = [run EXCEPT ![c] = [@ EXCEPT !.pc = pc, !.log = @ \o calls]]

GetStart(c) ==
    /\ run[c].pc = "idle"
    /\ run' = [run EXCEPT ![c] = [IdleRun EXCEPT !.pc = "try_keychain"]]
    /\ UNCHANGED <<kcEntry, kcFault, home, cfg_unix, file, last, lastSet, deleted>>

\* the step removing a malformed token from the secure store
GetTryKeychain_removes_malformed(c) ==
    /\ run[c].pc = "try_keychain"
    /\ IF try_keychain.res.tag = "Ok"
       THEN run' = [run EXCEPT ![c] =
                       [@ EXCEPT !.pc = "done", !.log = @ \o try_keychain.log,
                                 !.res = after_keychain(try_keychain.res.token)]]
       ELSE Goto(c, "path_exists", try_keychain.log)
    /\ kcEntry' = IF try_keychain.res.tag = "Ok"
                     /\ validate_token(try_keychain.res.token).tag # "Ok"
                  THEN Absent
                  ELSE kcEntry
    /\ UNCHANGED <<kcFault, home, cfg_unix, file, last, lastSet, deleted>>

\* the step trying the secure store a second time after a failure
GetTryKeychain_retries_once(c) ==
    /\ run[c].pc = "try_keychain"
    /\ IF try_keychain.res.tag = "Ok"
       THEN run' = [run EXCEPT ![c] =
                       [@ EXCEPT !.pc = "done", !.log = @ \o try_keychain.log,
                                 !.res = after_keychain(try_keychain.res.token)]]
       ELSE IF run[c].log = <<>>
       THEN Goto(c, "try_keychain", try_keychain.log)
       ELSE Goto(c, "path_exists", try_keychain.log)
    /\ UNCHANGED <<kcEntry, kcFault, home, cfg_unix, file, last, lastSet, deleted>>

GetTryKeychain(c) ==
    /\ run[c].pc = "try_keychain"
    /\ IF try_keychain.res.tag = "Ok"
       THEN run' = [run EXCEPT ![c] =
                       [@ EXCEPT !.pc = "done", !.log = @ \o try_keychain.log,
                                 !.res = after_keychain(try_keychain.res.token)]]
       ELSE Goto(c, "path_exists", try_keychain.log)
    /\ UNCHANGED <<kcEntry, kcFault, home, cfg_unix, file, last, lastSet, deleted>>

GetPathExists(c) ==
    /\ run[c].pc = "path_exists"
    /\ IF ~get_fallback_path
       THEN Finish(c, Err("NotFound"), <<Call("home_dir", <<>>)>>)
       ELSE IF ~path_exists
       THEN Finish(c, Err("NotFound"),
                   <<Call("home_dir", <<>>), Call("path.exists", <<>>)>>)
       ELSE Goto(c, IF cfg_unix THEN "metadata" ELSE "read_to_string",
                 <<Call("home_dir", <<>>), Call("path.exists", <<>>)>>)
    /\ UNCHANGED <<kcEntry, kcFault, home, cfg_unix, file, last, lastSet, deleted>>

GetMetadata(c) ==
    /\ run[c].pc = "metadata"
    /\ IF fs_metadata.tag # "Ok"
       THEN Finish(c, ErrMsg("FileError", fs_metadata.msg), unix_block_log)
       ELSE Goto(c, "read_to_string", unix_block_log)
    /\ UNCHANGED <<kcEntry, kcFault, home, cfg_unix, file, last, lastSet, deleted>>

GetReadToString(c) ==
    /\ run[c].pc = "read_to_string"
    /\ IF read_to_string.tag # "Ok"
       THEN Finish(c, ErrMsg("FileError", read_to_string.msg),
                   <<Call("fs::read_to_string", <<>>)>>)
       ELSE Finish(c, OkStr(trim(read_to_string.token)),
                   <<Call("fs::read_to_string", <<>>)>>)
    /\ UNCHANGED <<kcEntry, kcFault, home, cfg_unix, file, last, lastSet, deleted>>

\* the caller has taken the result
GetReturn(c) ==
    /\ run[c].pc = "done"
    /\ run' = [run EXCEPT ![c] = IdleRun]
    /\ UNCHANGED <<kcEntry, kcFault, home, cfg_unix, file, last, lastSet, deleted>>

ConcurrentSet(token) ==
    /\ kcEntry' = set_auth_token(token).entry
    /\ run' = Dirty
    /\ UNCHANGED <<kcFault, home, cfg_unix, file, last, lastSet, deleted>>

ConcurrentDelete ==
    /\ kcEntry' = delete_auth_token.entry
    /\ run' = Dirty
    /\ UNCHANGED <<kcFault, home, cfg_unix, file, last, lastSet, deleted>>

ConcurrentFileChange(f) ==
    /\ f # file
    /\ file' = f
    /\ run' = Dirty
    /\ UNCHANGED <<kcEntry, kcFault, home, cfg_unix, last, lastSet, deleted>>

InitC ==
    /\ kcEntry \in KcEntriesC
    /\ kcFault \in Faults
    /\ home \in BOOLEAN
    /\ cfg_unix \in BOOLEAN
    /\ file \in FilesC
    /\ last = NoCall
    /\ lastSet = NoToken
    /\ deleted = FALSE
    /\ run = NoRuns

GetStep(c) ==
    \/ GetTryKeychain(c)
    \/ GetPathExists(c)
    \/ GetMetadata(c)
    \/ GetReadToString(c)

NextC ==
    \/ \E c \in Callers : GetStart(c)
    \/ \E c \in Callers : GetStep(c)
    \/ \E c \in Callers : GetReturn(c)
    \/ ConcurrentSet(TokB)
    \/ ConcurrentDelete
    \/ \E f \in FilesC : ConcurrentFileChange(f)

SpecC == InitC /\ [][NextC]_vars

----------------------------------------------------------------------------
\* Vocabulary of the properties, stated on characters rather than through the
\* operators of the model

\* the number of bytes of the UTF-8 form of a character
Width(c) == IF c < 128 THEN 1 ELSE IF c < 2048 THEN 2 ELSE IF c < 65536 THEN 3 ELSE 4

RECURSIVE ByteCount(_)
ByteCount(s) == IF s = <<>> THEN 0 ELSE Width(Head(s)) + ByteCount(Tail(s))

\* s starts with "rl_" and has a length (str::len) of at least 24
WellFormed(s) ==
    /\ Len(s) >= 3
    /\ s[1] = 114
    /\ s[2] = 108
    /\ s[3] = 95
    /\ ByteCount(s) >= 24

\* s[i..j] is s without its leading and trailing whitespace
IsCore(s, i, j) ==
    /\ i \in 1..Len(s)
    /\ j \in i..Len(s)
    /\ \A k \in 1..(i - 1) : is_whitespace(s[k])
    /\ \A k \in (j + 1)..Len(s) : is_whitespace(s[k])
    /\ ~is_whitespace(s[i])
    /\ ~is_whitespace(s[j])

\* where the text of s can start and end: its first and its last character
\* that is not whitespace
InkStart(s) ==
    {i \in 1..Len(s) : ~is_whitespace(s[i]) /\ \A k \in 1..(i - 1) : is_whitespace(s[k])}
InkEnd(s) ==
    {j \in 1..Len(s) :
        ~is_whitespace(s[j]) /\ \A k \in (j + 1)..Len(s) : is_whitespace(s[k])}

\* t is s trimmed of surrounding whitespace
IsTrimOf(t, s) ==
    \/ t = <<>> /\ \A k \in 1..Len(s) : is_whitespace(s[k])
    \/ \E i \in InkStart(s) : \E j \in InkEnd(s) : IsCore(s, i, j) /\ t = SubSeq(s, i, j)

\* the secure-store read of get_auth_token returns a token / fails
KcReadOk == kcFault = "none" /\ kcEntry.present
KcReadFails == ~KcReadOk

\* the fallback read fails: no home directory, no file, or an I/O error
FallbackReadFails == ~home \/ file.kind \in {"absent", "dir", "binary"}

FileCalls == {"home_dir", "path.exists", "fs::metadata", "eprintln", "fs::read_to_string"}
FileConsulted(log) == \E i \in 1..Len(log) : log[i].call \in FileCalls
WriteCalls(log) == {i \in 1..Len(log) : log[i].call = "set_password"}

----------------------------------------------------------------------------
C2_TestValidateToken ==
    last.op = "validate_token" =>
        /\ last.arg = TestToken => last.res.tag = "Ok"
        /\ last.arg = TestInvalid => last.res.tag = "InvalidFormat"
        /\ last.arg = TestShort => last.res.tag = "InvalidFormat"

\* C3: when the secure-store read returns a malformed token, get_auth_token
\* returns InvalidFormat and does not consult the fallback file, whatever the
\* file holds.
C3_MalformedKeychainFailsClosed ==
    (last.op = "get_auth_token" /\ KcReadOk /\ ~WellFormed(kcEntry.value)) =>
        /\ last.res = Err("InvalidFormat")
        /\ ~FileConsulted(last.log)

\* malformed token in the store, well-formed token in the file: InvalidFormat
C3_Witness ==
    /\ last.op = "get_auth_token"
    /\ kcFault = "none"
    /\ kcEntry = Present(TestToken)
    /\ home
    /\ file.kind = "text"
    /\ file.text = TokA
    /\ last.res.tag = "InvalidFormat"

\* C4: when the secure-store read returns a well-formed token, get_auth_token
\* returns exactly that token with source "keychain" and does not consult the
\* fallback file.
C4_KeychainTokenWins ==
    (last.op = "get_auth_token" /\ KcReadOk /\ WellFormed(kcEntry.value)) =>
        /\ last.res = R("Ok", kcEntry.value, "keychain", "")
        /\ ~FileConsulted(last.log)

\* well-formed tokens in both tiers, different from each other
C4_Witness ==
    /\ last.op = "get_auth_token"
    /\ kcFault = "none"
    /\ kcEntry = Present(TokB)
    /\ home
    /\ file.kind = "text"
    /\ file.text = TokA
    /\ last.res.token = TokB
    /\ last.res.source = "keychain"

\* C5: when the secure-store read fails and the content of the fallback file,
\* trimmed of surrounding whitespace, is a well-formed token, get_auth_token
\* returns that trimmed token with source "file".
C5_FallbackTokenTrimmed ==
    (last.op = "get_auth_token" /\ KcReadFails /\ home /\ file.kind = "text") =>
        \A i \in InkStart(file.text) : \A j \in InkEnd(file.text) :
            (IsCore(file.text, i, j) /\ WellFormed(SubSeq(file.text, i, j))) =>
                last.res = R("Ok", SubSeq(file.text, i, j), "file", "")

\* a token with whitespace on both sides has been read from the file
C5_Witness ==
    /\ last.op = "get_auth_token"
    /\ ~kcEntry.present
    /\ home
    /\ file.kind = "text"
    /\ file.text = <<12288>> \o TokA \o <<12288>>
    /\ last.res.token = TokA
    /\ last.res.source = "file"

\* C6: when the secure-store read fails and the fallback read fails (home
\* directory unresolvable, file absent, or an I/O error), get_auth_token returns
\* NotFound; the only errors it returns are NotFound and InvalidFormat.
C6_NotFoundWhenBothFail ==
    last.op = "get_auth_token" =>
        /\ last.res.tag \in {"Ok", "NotFound", "InvalidFormat"}
        /\ (KcReadFails /\ FallbackReadFails) => last.res = Err("NotFound")

\* the secure store fails and reading the file is an I/O error
C6_Witness ==
    /\ last.op = "get_auth_token"
    /\ kcFault = "locked"
    /\ home
    /\ file.kind = "binary"
    /\ last.res.tag = "NotFound"

\* C7 as stated: set_auth_token returns InvalidFormat and writes nothing for a
\* candidate that fails validation, and writes a valid candidate unchanged to
\* the secure store.
C7_AsStated ==
    [][last'.op = "set_auth_token" =>
        /\ ~WellFormed(last'.arg) =>
              /\ last'.res = Err("InvalidFormat")
              /\ WriteCalls(last'.log) = {}
              /\ kcEntry' = kcEntry
        /\ WellFormed(last'.arg) => kcEntry' = Present(last'.arg)]_vars

\* C7 amended: set_auth_token returns InvalidFormat and writes nothing for a
\* candidate that fails validation; for a valid candidate it either writes that
\* candidate unchanged to the secure store and succeeds, or the secure store
\* fails, it returns KeychainError and the entry is unchanged.
C7_ValidateBeforeWrite ==
    [][last'.op = "set_auth_token" =>
        /\ ~WellFormed(last'.arg) =>
              /\ last'.res = Err("InvalidFormat")
              /\ WriteCalls(last'.log) = {}
              /\ kcEntry' = kcEntry
        /\ WellFormed(last'.arg) =>
              /\ \A i \in WriteCalls(last'.log) : last'.log[i].arg = last'.arg
              /\ \/ /\ last'.res = OkUnit
                    /\ WriteCalls(last'.log) # {}
                    /\ kcEntry' = Present(last'.arg)
                 \/ /\ last'.res.tag = "KeychainError"
                    /\ kcFault # "none"
                    /\ kcEntry' = kcEntry]_vars

\* an invalid candidate was refused while the store held a token, which is
\* still there
C7_Witness ==
    /\ last.op = "set_auth_token"
    /\ last.arg = TestToken
    /\ last.res.tag = "InvalidFormat"
    /\ kcFault = "none"
    /\ kcEntry = Present(TokB)

\* C8: after a successful set_auth_token(t), with no store, delete or outside
\* change of the secure store since, get_auth_token returns t unchanged with
\* source "keychain".
C8_RoundTrip ==
    (last.op = "get_auth_token" /\ lastSet.present) =>
        last.res = R("Ok", lastSet.value, "keychain", "")

\* a token ending in a line feed was set and then resolved, no fallback file
C8_Witness ==
    /\ last.op = "get_auth_token"
    /\ lastSet = Present(TokNL)
    /\ file = NoFile
    /\ last.res.token = TokNL
    /\ last.res.source = "keychain"

\* C9: no command of the core changes the fallback file: its existence,
\* content and permissions are the same after get_auth_token, set_auth_token
\* (any argument) and delete_auth_token as before.
C9_FallbackFileUntouched ==
    [][last'.op \in {"get_auth_token", "set_auth_token", "delete_auth_token"} =>
        (file' = file /\ home' = home)]_vars

\* a delete succeeded and the fallback file still holds its token
C9_Witness ==
    /\ last.op = "delete_auth_token"
    /\ last.res.tag = "Ok"
    /\ file.kind = "text"
    /\ file.text = TokA \o <<10>>

\* C10: a token returned by get_auth_token is well-formed, and its source names
\* the tier it equals: "keychain" the secure-store value, "file" the trimmed
\* content of the fallback file.
C10_ResolvedTokenInvariant ==
    (last.op = "get_auth_token" /\ last.res.tag = "Ok") =>
        /\ WellFormed(last.res.token)
        /\ last.res.source \in {"keychain", "file"}
        /\ last.res.source = "keychain" =>
              (KcReadOk /\ last.res.token = kcEntry.value)
        /\ last.res.source = "file" =>
              (KcReadFails /\ home /\ file.kind = "text"
               /\ IsTrimOf(last.res.token, file.text))

\* a token came from the file while the store held a different one, locked
C10_Witness ==
    /\ last.op = "get_auth_token"
    /\ last.res.tag = "Ok"
    /\ last.res.source = "file"
    /\ kcEntry = Present(TokB)
    /\ kcFault = "locked"
    /\ file.text = <<10>> \o TokInner

\* the result get_auth_token has when only the fallback tier decides:
\* NotFound when the read fails, else the trimmed content or InvalidFormat
FallbackDecides(res) ==
    IF FallbackReadFails
    THEN res = Err("NotFound")
    ELSE \/ /\ \A k \in 1..Len(file.text) : is_whitespace(file.text[k])
            /\ res = Err("InvalidFormat")
         \/ \E i \in InkStart(file.text) : \E j \in InkEnd(file.text) :
               /\ IsCore(file.text, i, j)
               /\ res = IF WellFormed(SubSeq(file.text, i, j))
                        THEN R("Ok", SubSeq(file.text, i, j), "file", "")
                        ELSE Err("InvalidFormat")

Warned(log) == \E i \in 1..Len(log) : log[i].call = "eprintln"

\* C11: the result of reading the fallback file does not depend on its
\* permission bits: for every mode a readable text file yields Ok with its
\* trimmed content; group/other bits only add a warning (on a unix build).
C11_ModeDoesNotChangeResult ==
    (last.op = "try_fallback_file" /\ home /\ file.kind = "text") =>
        /\ last.res.tag = "Ok"
        /\ IsTrimOf(last.res.token, file.text)
        /\ Warned(last.log) <=> (cfg_unix /\ file.mode % 64 # 0)

\* a file of mode 0644 was read: trimmed content, warning
C11_Witness ==
    /\ last.op = "try_fallback_file"
    /\ cfg_unix
    /\ file.mode = 420
    /\ file.text = TokA \o <<10>>
    /\ last.res = OkStr(TokA)
    /\ Warned(last.log)

\* C13: delete_auth_token with no entry in the secure store returns
\* KeychainError and leaves the secure store and the fallback file unchanged.
C13_DeleteMissingIsError ==
    [][(last'.op = "delete_auth_token" /\ ~kcEntry.present) =>
        /\ last'.res.tag = "KeychainError"
        /\ kcEntry' = kcEntry
        /\ kcFault' = kcFault
        /\ file' = file]_vars

\* a delete on a working store without entry failed with NoEntry
C13_Witness ==
    /\ last.op = "delete_auth_token"
    /\ kcFault = "none"
    /\ ~kcEntry.present
    /\ last.res = ErrMsg("KeychainError", "NoEntry")
    /\ file.kind = "text"

\* C14: when the secure-store read fails and the fallback file is read but its
\* trimmed content is malformed (also empty or whitespace only),
\* get_auth_token returns InvalidFormat, not NotFound.
C14_MalformedFileIsInvalidFormat ==
    (/\ last.op = "get_auth_token"
     /\ KcReadFails
     /\ home
     /\ file.kind = "text"
     /\ \A i \in InkStart(file.text) : \A j \in InkEnd(file.text) :
            IsCore(file.text, i, j) => ~WellFormed(SubSeq(file.text, i, j)))
    => last.res = Err("InvalidFormat")

\* a whitespace-only file was read
C14_Witness ==
    /\ last.op = "get_auth_token"
    /\ ~kcEntry.present
    /\ home
    /\ file.kind = "text"
    /\ file.text = <<10>>
    /\ last.res.tag = "InvalidFormat"

\* C17: from a successful delete_auth_token to the next write of the secure
\* store, get_auth_token never returns source "keychain"; its result is the
\* one the fallback file decides.
C17_NoTokenAfterDelete ==
    (last.op = "get_auth_token" /\ deleted) =>
        /\ last.res.source # "keychain"
        /\ FallbackDecides(last.res)

\* after a delete, with a working store, the token of the file was returned
C17_Witness ==
    /\ last.op = "get_auth_token"
    /\ deleted
    /\ kcFault = "none"
    /\ home
    /\ file.text = TokA
    /\ last.res = R("Ok", TokA, "file", "")

\* C18: whatever makes the secure-store read fail (no entry, store locked,
\* platform error, no entry handle), get_auth_token goes on to the fallback
\* file and returns what the fallback tier decides.
C18_KeychainFailureKindHidden ==
    (last.op = "get_auth_token" /\ KcReadFails) =>
        /\ FileConsulted(last.log)
        /\ FallbackDecides(last.res)
        /\ last.res.msg = ""

\* the entry handle could not be built, the store holds a token, the file's
\* token was returned
C18_Witness ==
    /\ last.op = "get_auth_token"
    /\ kcFault = "new"
    /\ kcEntry = Present(TokB)
    /\ home
    /\ file.text = TokA
    /\ last.res = R("Ok", TokA, "file", "")

\* C20: every string accepted by validate_token has at least 24 characters,
\* that is at least 21 characters after "rl_", also when it holds multi-byte
\* characters.
C20_LengthInCharacters ==
    (last.op = "validate_token" /\ last.res.tag = "Ok") =>
        /\ Len(last.arg) >= 24
        /\ Len(last.arg) - Len(TOKEN_PREFIX) >= 21

\* C16 as stated: after set_auth_token and delete_auth_token calls on a store
\* that started absent or valid, the entry is absent or a valid token, and when
\* present it is the argument of the most recent successful set_auth_token.
C16_AsStated ==
    (last.op \in {"set_auth_token", "delete_auth_token"} /\ kcEntry.present) =>
        /\ WellFormed(kcEntry.value)
        /\ lastSet.present
        /\ kcEntry = lastSet

\* C16 amended: the entry is absent or a valid token; it changes only by a
\* successful set_auth_token, to that call's argument, and by a successful
\* delete_auth_token, to absent; so when present it is the argument of the most
\* recent successful set_auth_token, or the initial entry when none succeeded.
C16_StoreHoldsValidToken ==
    /\ [](kcEntry.present =>
            /\ WellFormed(kcEntry.value)
            /\ lastSet.present => kcEntry = lastSet)
    /\ [][kcEntry' # kcEntry =>
            \/ /\ last'.op = "set_auth_token"
               /\ last'.res = OkUnit
               /\ kcEntry' = Present(last'.arg)
            \/ /\ last'.op = "delete_auth_token"
               /\ last'.res = OkUnit
               /\ kcEntry' = Absent]_vars

\* a token was set, then an invalid candidate was refused: the token is kept
C16_Witness ==
    /\ last.op = "set_auth_token"
    /\ last.arg = TestToken
    /\ last.res.tag = "InvalidFormat"
    /\ lastSet = Present(TokNL)
    /\ kcEntry = Present(TokNL)

Count(log, name) == Cardinality({i \in 1..Len(log) : log[i].call = name})
KeychainCalls == {"Entry::new", "get_password"}
Done(c) == run[c].pc = "done"

\* C12: get_auth_token changes neither the secure store nor the fallback
\* file, and invocations that interleave with each other with no
\* set_auth_token, delete_auth_token or change of the file in between all
\* return the same result, the one a single invocation returns.
C12_ConcurrentReadsAgree ==
    /\ [](\A c \in Callers : (Done(c) /\ run[c].clean) =>
            /\ run[c].res = get_auth_token.res
            /\ \A d \in Callers :
                  (Done(d) /\ run[d].clean) => run[d].res = run[c].res)
    /\ [][(\E c \in Callers : run'[c].pc # run[c].pc) =>
            /\ kcEntry' = kcEntry
            /\ kcFault' = kcFault
            /\ home' = home
            /\ file' = file]_vars

\* two undisturbed invocations have both returned the token of the file
C12_Witness ==
    /\ \A c \in Callers : Done(c) /\ run[c].clean
    /\ run[1].res = R("Ok", TokA, "file", "")
    /\ run[2].res = run[1].res

\* C15: try_fallback_file reports an absent fallback file as NotFound and
\* never as FileError, also when the file is removed between the existence
\* check, the metadata inspection and the read.
C15_AbsentIsNotFound ==
    \A c \in Callers :
        /\ (Done(c) /\ run[c].clean /\ run[c].fb # NotRun /\ home
            /\ file.kind = "absent") => run[c].fb = Err("NotFound")
        /\ run[c].fb.tag = "FileError" => run[c].fb.msg # "NotFound"

\* how far an invocation has come
Rank(pc) ==
    CASE pc = "idle" -> 0
      [] pc = "try_keychain" -> 1
      [] pc = "path_exists" -> 2
      [] pc = "metadata" -> 3
      [] pc = "read_to_string" -> 4
      [] pc = "done" -> 5

\* C19: every get_auth_token invocation ends in Ok, NotFound or
\* InvalidFormat, having tried the secure store exactly once and the fallback
\* file at most once, the secure store first, with no call repeated.  It
\* terminates: an invocation in progress always has a next call to make, and
\* every call brings it nearer to its end.
C19_TwoStepsNoRetry ==
    /\ [](\A c \in Callers :
            /\ \A n \in KeychainCalls \cup FileCalls : Count(run[c].log, n) <= 1
            /\ \A i, j \in 1..Len(run[c].log) :
                  (run[c].log[i].call \in KeychainCalls
                   /\ run[c].log[j].call \in FileCalls) => i < j
            /\ Done(c) =>
                  /\ run[c].res.tag \in {"Ok", "NotFound", "InvalidFormat"}
                  /\ Count(run[c].log, "Entry::new") = 1
                  /\ run[c].res.tag = "Ok" <=> run[c].res.source \in {"keychain", "file"})
    /\ [](\A c \in Callers :
            run[c].pc \notin {"idle", "done"} => ENABLED GetStep(c))
    /\ [][\A c \in Callers :
            run'[c].pc # run[c].pc =>
                \/ Rank(run'[c].pc) > Rank(run[c].pc)
                \/ Done(c) /\ run'[c].pc = "idle"]_vars

\* an invocation has gone through both tiers and ended in NotFound
C19_Witness ==
    /\ Done(1)
    /\ Count(run[1].log, "get_password") = 1
    /\ Count(run[1].log, "fs::read_to_string") = 1
    /\ run[1].res.tag = "NotFound"

====
